---- MODULE Spec2Model ----
(***************************************************************************)
(* A model of goph's client.go: the connection set-up (NewConfig,          *)
(* NewClient), remote command execution (Run, RunContext, Command,         *)
(* CommandContext) and the SFTP file transfers (Upload, Download).         *)
(*                                                                         *)
(* The ssh / sftp / os libraries are the environment: every call into them *)
(* is a step whose outcome (success or error) is chosen                    *)
(* nondeterministically, constrained by the state of the file systems.     *)
(* Go's `defer` is modelled by a per-call stack of handles that is         *)
(* unwound (LIFO) when the function returns or panics.                     *)
(***************************************************************************)
EXTENDS Integers, Sequences, FiniteSets, TLC

VARIABLES
    config,     \* the *Config last returned by NewConfig (set = FALSE: none)
    cfgArgs,    \* the arguments of the NewConfig call that produced config
    cfgErr,     \* the error returned by the last NewConfig call
    client,     \* the *Client: "none" | "open" | "closed"
    dials,      \* the ssh.Dial calls made so far
    closeErr,   \* the kinds of handle whose Close reports an error
    pc,         \* pc[t]: where task t is inside its current call
    call,       \* call[t]: the operation and arguments of t's current/last call
    callNo,     \* callNo[t]: number of calls task t has started
    cmd,        \* cmd[t]: the *Cmd built by CommandContext for t's call
    ctx,        \* ctx[t]: the caller's context.Context of t's RunContext call
    proc,       \* proc[t]: the remote process of the session of t's call
    defers,     \* defers[t]: the deferred Close calls of t's current call
    log,        \* log[t]: the library calls made by t's current/last call
    ret,        \* ret[t]: what t's last completed call returned
    prev,       \* prev[t]: what the call before that returned
    res,        \* every session / channel / file handle opened so far
    localFS,    \* the local file system: path -> [exists, data]
    remoteFS    \* the remote file system: path -> [exists, data]

vars == <<config, cfgArgs, cfgErr, client, dials, closeErr, pc, call, callNo, cmd, ctx,
          proc, defers, log, ret, prev, res, localFS, remoteFS>>

connVars == <<config, cfgArgs, cfgErr, client, dials, closeErr>>
taskVars == <<pc, call, callNo, cmd, ctx, proc, defers, log, ret, prev, res>>
fsVars   == <<localFS, remoteFS>>

----------------------------------------------------------------------------
(* Bounds of the model *)

MaxLen == 2      \* longest file content / command output, in bytes
MaxCalls == 2    \* calls issued on the connection, over all tasks
MaxDials == 2    \* NewClient calls in the connection set-up

Tasks == {1, 2}
\* The byte strings of the model: the first n bytes of "abab..." are what a
\* local file holds or a remote process writes, the first n bytes of "zzzz..."
\* what the remote file held before any transfer.
Stream(n) == [i \in 1..n |-> IF i % 2 = 1 THEN "a" ELSE "b"]
Old(n) == [i \in 1..n |-> "z"]
Contents == {Stream(n) : n \in 0..MaxLen}
OldContents == {Old(n) : n \in 0..MaxLen}

Names == {"ls"}
ArgLists == {<<>>, <<"-l", "/tmp">>}

LocalPaths == {"l1", "l2"}
RemotePaths == {"r1"}

Users == {"root", "bob"}
Addrs == {<<"h">>, <<":", ":", "1">>}       \* a host name and an IPv6 literal
Ports == {22, 2222, 80}
Auths == {"password", "key"}

----------------------------------------------------------------------------
(* Connection set-up *)

DefaultTimeout == 20

NoConfig ==
    [set |-> FALSE, Auth |-> "none", Addr |-> <<>>, Port |-> 0, Protocol |-> "",
     User |-> "", Timeout |-> 0, HostKeyCallback |-> FALSE]

NoArgs == [user |-> "", addr |-> <<>>, port |-> 0, auth |-> "none"]

\* The *Config NewConfig builds once DefaultKnownHosts has given a callback.
MkConfig(user, addr, port, auth) ==
    [set |-> TRUE, Auth |-> auth, Addr |-> addr, Port |-> 22, Protocol |-> "tcp",
     User |-> user, Timeout |-> DefaultTimeout, HostKeyCallback |-> TRUE]

\* DefaultKnownHosts() lives outside client.go: it yields a callback or an error.
DefaultKnownHosts == {"callback", "error"}

\* fmt.Sprint of an unsigned integer: its decimal digits.
DigitChars == <<"0", "1", "2", "3", "4", "5", "6", "7", "8", "9">>

RECURSIVE Sprint(_)
Sprint(n) ==
    IF n < 10 THEN <<DigitChars[n + 1]>>
    ELSE Sprint(n \div 10) \o <<DigitChars[(n % 10) + 1]>>

\* net.JoinHostPort: "host:port", the host in brackets when it holds ':' or '%'.
JoinHostPort(host, port) ==
    IF \E i \in 1..Len(host) : host[i] \in {":", "%"}
    THEN <<"[">> \o host \o <<"]", ":">> \o port
    ELSE host \o <<":">> \o port

NewConfig(user, addr, port, auth) ==
    /\ client = "none"
    /\ \E known \in DefaultKnownHosts :
          IF known = "error"
          THEN /\ config' = NoConfig
               /\ cfgArgs' = NoArgs
               /\ cfgErr' = "ErrKnownHosts"
          ELSE /\ config' = MkConfig(user, addr, port, auth)
               /\ cfgArgs' = [user |-> user, addr |-> addr, port |-> port, auth |-> auth]
               /\ cfgErr' = "nil"
    /\ UNCHANGED <<client, dials, closeErr, taskVars, fsVars>>

\* Config is an exported struct: a caller can build one without NewConfig,
\* with any port and with or without a host-key callback.
CallerConfig(user, addr, port, auth, callback) ==
    /\ client = "none"
    /\ config' = [MkConfig(user, addr, port, auth) EXCEPT !.Port = port,
                                                         !.HostKeyCallback = callback]
    /\ cfgArgs' = [user |-> user, addr |-> addr, port |-> port, auth |-> auth]
    /\ cfgErr' = "nil"
    /\ UNCHANGED <<client, dials, closeErr, taskVars, fsVars>>

\* ssh.Dial(network, addr, config) as recorded: `args` notes the arguments the
\* dialed configuration came from, `callback` whether it carries a host-key
\* callback.
Dial(network, addr) ==
    [network |-> network, addr |-> addr, args |-> cfgArgs,
     callback |-> config.HostKeyCallback]

\* NewClient hands the configuration to ssh.Dial as it is.  ssh.Dial connects
\* to the address and then runs the handshake, which fails for any reason and
\* which the ssh package refuses when the configuration has no callback.
NewClient ==
    /\ config.set
    /\ client = "none"
    /\ Len(dials) < MaxDials
    /\ dials' = Append(dials, Dial(config.Protocol,
                                    JoinHostPort(config.Addr, Sprint(config.Port))))
    /\ \E ok \in {b \in BOOLEAN : b => config.HostKeyCallback} :
          client' = IF ok THEN "open" ELSE "none"
    /\ UNCHANGED <<config, cfgArgs, cfgErr, closeErr, taskVars, fsVars>>

----------------------------------------------------------------------------
(* Handles, deferred calls and returns *)

Range(s) == {s[i] : i \in 1..Len(s)}

Reverse(s) == [i \in 1..Len(s) |-> s[Len(s) + 1 - i]]

\* The handle a call opens is named by the task, the number of the call
\* and the kind of handle: "session", "local", "channel", "remote".
HandleId(t, kind) == <<t, callNo[t], kind>>

\* The same name, in the step that starts the call.
NewId(t, kind) == <<t, callNo[t] + 1, kind>>

\* The call task t is in, and the call it is starting.
Caller(t) == <<t, callNo[t]>>
NewCaller(t) == <<t, callNo[t] + 1>>

\* A handle records the operation and the call that opened it, whether it is
\* open, how often its Close was called and by which calls.
OpenHandle(r, id, op, who) ==
    r @@ (id :> [op |-> op, state |-> "open", closes |-> 0, owner |-> who,
                 closedBy |-> {}])

\* Running the deferred Close calls of a function: each handle on the stack is
\* closed, the last deferred first; the errors of the closes are dropped.
Occurrences(stack, id) == Cardinality({i \in 1..Len(stack) : stack[i] = id})

\* Deferred closes on handles the calls share: a returning call closes every
\* handle of the kinds it deferred, whichever call opened it.
RunDefers_SharedHandles(r, stack, who) ==
    [id \in DOMAIN r |->
        IF \E i \in 1..Len(stack) : stack[i][3] = id[3]
        THEN [r[id] EXCEPT !.state = "closed", !.closes = @ + 1,
                           !.closedBy = @ \cup {who}]
        ELSE r[id]]

RunDefers(r, stack, who) ==
    [id \in DOMAIN r |->
        IF id \in Range(stack)
        THEN [r[id] EXCEPT !.state = "closed", !.closes = @ + Occurrences(stack, id),
                           !.closedBy = @ \cup {who}]
        ELSE r[id]]

DeferEvents(stack) == [i \in 1..Len(stack) |-> <<"Close", Reverse(stack)[i][3]>>]

CallRec(op, a, b) == [op |-> op, a |-> a, b |-> b]

NoCall == CallRec("none", "", "")

\* What a call returned: the output (nil or bytes) and the error, or a panic
\* that left the function; `call` is the call it answers and `data` the bytes
\* its io.Copy moved.
Result(op, isNil, out, err) ==
    [op |-> op, isNil |-> isNil, out |-> out, err |-> err, panicked |-> FALSE,
     call |-> NoCall, data |-> <<>>]

NoRet == Result("none", TRUE, <<>>, "nil")

\* A call that produces no output: the error alone is returned.
ErrResult(op, err) == Result(op, TRUE, <<>>, err)

Panic(op) == [Result(op, TRUE, <<>>, "panic") EXCEPT !.panicked = TRUE]

\* The kinds of handle whose Close can return an error.
HandleKinds == {"session", "channel", "remote", "local"}

\* A function whose close errors replace what it returns.
AfterDefers_CloseErrorWins(r, stack) ==
    IF \E i \in 1..Len(stack) : stack[i][3] \in closeErr
    THEN [r EXCEPT !.err = "ErrClose"]
    ELSE r

\* `defer x.Close()` drops what Close returns: the function returns r whether
\* or not the closes of its stack failed.
AfterDefers(r, stack) == r

\* Task t leaves its current call with result r: the steps `events` are logged,
\* the deferred closes run, and the task is idle again.
Return(t, events, r) ==
    /\ res' = RunDefers(res, defers[t], Caller(t))
    /\ log' = [log EXCEPT ![t] = @ \o events \o DeferEvents(defers[t])]
    /\ defers' = [defers EXCEPT ![t] = <<>>]
    /\ prev' = [prev EXCEPT ![t] = ret[t]]
    /\ ret' = [ret EXCEPT ![t] = [AfterDefers(r, defers[t]) EXCEPT !.call = call[t]]]
    /\ pc' = [pc EXCEPT ![t] = "idle"]

RECURSIVE SumOver(_, _)
SumOver(f, S) ==
    IF S = {} THEN 0
    ELSE LET x == CHOOSE y \in S : TRUE IN f[x] + SumOver(f, S \ {x})

\* The number of calls started so far.
Calls == SumOver(callNo, Tasks)

\* Task t starts a call.
CanCall(t) ==
    /\ pc[t] = "idle"
    /\ client = "open"
    /\ Calls < MaxCalls

----------------------------------------------------------------------------
(* The remote process of a session *)

NoProc == [state |-> "none", buf |-> <<>>, status |-> "none"]

Statuses == {"exit0", "exit1", "lost"}

\* The error Session.CombinedOutput reports for the way the command ended.
ExitError(status) ==
    CASE status = "exit0" -> "nil"
      [] status = "exit1" -> "ErrExit"
      [] OTHER -> "ErrSession"

\* The remote process of task t's session writes its output and ends: it exits
\* with status 0, exits non-zero, or the session fails under it.
RemoteExit(t) ==
    /\ pc[t] \in {"run_output", "rc_output"}
    /\ proc[t].state = "running"
    /\ \E w \in Contents, st \in Statuses :
          proc' = [proc EXCEPT ![t] = [state |-> "done", buf |-> w, status |-> st]]
    /\ UNCHANGED <<connVars, fsVars, pc, call, callNo, cmd, ctx, defers, log, ret,
                   prev, res>>

----------------------------------------------------------------------------
(* Client.Run *)

\* Run without its `defer sess.Close()`.
RunDeferred_Missing(sess) == <<>>

NoCmd == [set |-> FALSE, Path |-> "", Args |-> <<>>, Session |-> <<>>, Context |-> "none"]

\* `defer sess.Close()`: what Run defers once its session is open.
RunDeferred(sess) == <<sess>>

\* Run up to c.NewSession(): on error it returns (nil, err); otherwise the
\* session's Close is deferred and sess.CombinedOutput(cmd) is entered.
RunNewSession(t) ==
    /\ CanCall(t)
    /\ callNo' = [callNo EXCEPT ![t] = @ + 1]
    /\ call' = [call EXCEPT ![t] = CallRec("Run", "sh", "")]
    /\ \E ok \in BOOLEAN :
          IF ok
          THEN /\ res' = OpenHandle(res, NewId(t, "session"), "Run", NewCaller(t))
               /\ defers' = [defers EXCEPT ![t] = RunDeferred(NewId(t, "session"))]
               /\ proc' = [proc EXCEPT ![t] = [NoProc EXCEPT !.state = "running"]]
               /\ log' = [log EXCEPT ![t] = <<<<"NewSession", "ok">>, <<"CombinedOutput", "sh">>>>]
               /\ pc' = [pc EXCEPT ![t] = "run_output"]
               /\ UNCHANGED <<ret, prev>>
          ELSE /\ log' = [log EXCEPT ![t] = <<<<"NewSession", "err">>>>]
               /\ prev' = [prev EXCEPT ![t] = ret[t]]
               /\ ret' = [ret EXCEPT ![t] = [ErrResult("Run", "ErrNewSession")
                                           EXCEPT !.call = CallRec("Run", "sh", "")]]
               /\ proc' = [proc EXCEPT ![t] = NoProc]
               /\ UNCHANGED <<res, defers, pc>>
    /\ UNCHANGED <<connVars, fsVars, cmd, ctx>>

\* Run returning nil instead of the collected output when the command failed.
RunResult_NilOnError(out, err) ==
    IF err = "nil" THEN Result("Run", FALSE, out, err) ELSE ErrResult("Run", err)

\* What Run returns once sess.CombinedOutput(cmd) has returned (out, err).
RunResult(out, err) == Result("Run", FALSE, out, err)

\* Run starting the command again when it failed.
RunCombinedOutput_Retries(t) ==
    /\ pc[t] = "run_output"
    /\ proc[t].state = "done"
    /\ IF proc[t].status # "exit0" /\ Len(log[t]) < 3
       THEN /\ proc' = [proc EXCEPT ![t] = [NoProc EXCEPT !.state = "running"]]
            /\ log' = [log EXCEPT ![t] = Append(@, <<"CombinedOutput", "sh">>)]
            /\ UNCHANGED <<res, defers, ret, prev, pc>>
       ELSE /\ Return(t, <<<<"Output", proc[t].status>>>>,
                      RunResult(proc[t].buf, ExitError(proc[t].status)))
            /\ UNCHANGED proc
    /\ UNCHANGED <<connVars, fsVars, call, callNo, cmd, ctx>>

\* sess.CombinedOutput(cmd) returns the bytes collected and the error, or
\* panics; either way the deferred sess.Close() runs before Run is left.
RunCombinedOutput(t) ==
    /\ pc[t] = "run_output"
    /\ proc[t].state = "done"
    /\ \/ Return(t, <<<<"Output", proc[t].status>>>>,
                 RunResult(proc[t].buf, ExitError(proc[t].status)))
       \/ Return(t, <<<<"Output", "panic">>>>, Panic("Run"))
    /\ UNCHANGED <<connVars, fsVars, call, callNo, cmd, ctx, proc>>

----------------------------------------------------------------------------
(* Client.Command, Client.CommandContext, Client.RunContext *)

\* A *Cmd that loses the argument list.
Command_DropsArgs(name, args, sess) ==
    [set |-> TRUE, Path |-> name, Args |-> <<>>, Session |-> sess,
     Context |-> "background"]

\* The *Cmd Command returns for an opened session: the background context.
Command(name, args, sess) ==
    [set |-> TRUE, Path |-> name, Args |-> args, Session |-> sess,
     Context |-> "background"]

\* CommandContext without `cmd.Context = ctx`.
CommandContext_DropsCtx(name, args, sess) == Command(name, args, sess)

\* CommandContext: the *Cmd of Command, with the caller's context attached.
CommandContext(name, args, sess) == [Command(name, args, sess) EXCEPT !.Context = "ctx"]

NoCtx == [done |-> FALSE, beforeExit |-> FALSE]

\* RunContext up to c.CommandContext(ctx, name): Command opens the session; on
\* error RunContext returns (nil, err); otherwise cmd.CombinedOutput() is
\* entered.  The caller's context may already be cancelled at the call.
RunContextCommand(t) ==
    /\ CanCall(t)
    /\ callNo' = [callNo EXCEPT ![t] = @ + 1]
    /\ call' = [call EXCEPT ![t] = CallRec("RunContext", "sh", "")]
    /\ \E cancelled \in BOOLEAN :
          ctx' = [ctx EXCEPT ![t] = [done |-> cancelled, beforeExit |-> cancelled]]
    /\ \E ok \in BOOLEAN :
          IF ok
          THEN /\ res' = OpenHandle(res, NewId(t, "session"), "RunContext", NewCaller(t))
               /\ cmd' = [cmd EXCEPT ![t] = CommandContext("sh", <<>>, NewId(t, "session"))]
               /\ proc' = [proc EXCEPT ![t] = [NoProc EXCEPT !.state = "running"]]
               /\ log' = [log EXCEPT ![t] = <<<<"NewSession", "ok">>, <<"CombinedOutput", "sh">>>>]
               /\ pc' = [pc EXCEPT ![t] = "rc_output"]
               /\ UNCHANGED <<ret, prev>>
          ELSE /\ log' = [log EXCEPT ![t] = <<<<"NewSession", "err">>>>]
               /\ prev' = [prev EXCEPT ![t] = ret[t]]
               /\ ret' = [ret EXCEPT ![t] = [ErrResult("RunContext", "ErrNewSession")
                                           EXCEPT !.call = CallRec("RunContext", "sh", "")]]
               /\ cmd' = [cmd EXCEPT ![t] = NoCmd]
               /\ proc' = [proc EXCEPT ![t] = NoProc]
               /\ UNCHANGED <<res, pc>>
    /\ UNCHANGED <<connVars, fsVars, defers>>

\* The caller cancels the context of task t's RunContext call while the call
\* is in flight; beforeExit records whether the remote process was still running.
Cancel(t) ==
    /\ pc[t] = "rc_output"
    /\ ~ctx[t].done
    /\ ctx' = [ctx EXCEPT ![t] = [done |-> TRUE, beforeExit |-> proc[t].state = "running"]]
    /\ UNCHANGED <<connVars, fsVars, pc, call, callNo, cmd, proc, defers, log, ret,
                   prev, res>>

\* Whether the command observes a cancellation that came before the exit.
Cancelled(t) == cmd[t].Context = "ctx" /\ ctx[t].done /\ ctx[t].beforeExit

\* Cmd.CombinedOutput: it waits for the remote process or the cancellation of
\* the command's context.  On cancellation it ends the remote process by a
\* signal request or, when signals are unsupported, by closing the session, and
\* returns the cancellation error; otherwise it returns the collected output
\* and the error of the session.
CmdCombinedOutput(t) ==
    IF Cancelled(t)
    THEN \E signal \in BOOLEAN :
            /\ res' = IF signal THEN res
                      ELSE [res EXCEPT ![cmd[t].Session] =
                              [@ EXCEPT !.state = "closed", !.closes = @ + 1,
                                        !.closedBy = @ \cup {Caller(t)}]]
            /\ log' = [log EXCEPT ![t] = Append(@, IF signal THEN <<"Signal", "SIGINT">>
                                                   ELSE <<"Close", "session">>)]
            /\ ret' = [ret EXCEPT ![t] = [ErrResult("RunContext", "ErrCancelled")
                                            EXCEPT !.call = call[t]]]
    ELSE /\ proc[t].state = "done"
         /\ res' = res
         /\ log' = [log EXCEPT ![t] = Append(@, <<"Output", proc[t].status>>)]
         /\ ret' = [ret EXCEPT ![t] =
                      [Result("RunContext", FALSE, proc[t].buf, ExitError(proc[t].status))
                         EXCEPT !.call = call[t]]]

\* RunContext looking at its context once cmd.CombinedOutput() has returned,
\* and answering with the cancellation error when the context is done by then.
RunContextOutput_ChecksCtx(t) ==
    /\ pc[t] = "rc_output"
    /\ IF ctx[t].done /\ ~Cancelled(t)
       THEN /\ proc[t].state = "done"
            /\ res' = res
            /\ log' = [log EXCEPT ![t] = Append(@, <<"Output", proc[t].status>>)]
            /\ ret' = [ret EXCEPT ![t] = [ErrResult("RunContext", "ErrCancelled")
                                            EXCEPT !.call = call[t]]]
       ELSE CmdCombinedOutput(t)
    /\ prev' = [prev EXCEPT ![t] = ret[t]]
    /\ pc' = [pc EXCEPT ![t] = "idle"]
    /\ UNCHANGED <<connVars, fsVars, call, callNo, cmd, ctx, proc, defers>>

\* `return cmd.CombinedOutput()`: RunContext hands the result on and registers
\* no deferred call.
RunContextOutput(t) ==
    /\ pc[t] = "rc_output"
    /\ CmdCombinedOutput(t)
    /\ prev' = [prev EXCEPT ![t] = ret[t]]
    /\ pc' = [pc EXCEPT ![t] = "idle"]
    /\ UNCHANGED <<connVars, fsVars, call, callNo, cmd, ctx, proc, defers>>

\* Client.Command(name, args...): it opens a session and returns the *Cmd bound
\* to it, neither started nor closed; on error it returns (nil, err).
ClientCommand(t, name, args) ==
    /\ CanCall(t)
    /\ callNo' = [callNo EXCEPT ![t] = @ + 1]
    /\ call' = [call EXCEPT ![t] = CallRec("Command", name, args)]
    /\ prev' = [prev EXCEPT ![t] = ret[t]]
    /\ proc' = [proc EXCEPT ![t] = NoProc]
    /\ \E ok \in BOOLEAN :
          IF ok
          THEN /\ res' = OpenHandle(res, NewId(t, "session"), "Command", NewCaller(t))
               /\ cmd' = [cmd EXCEPT ![t] = Command(name, args, NewId(t, "session"))]
               /\ log' = [log EXCEPT ![t] = <<<<"NewSession", "ok">>>>]
               /\ ret' = [ret EXCEPT ![t] = [Result("Command", FALSE, <<>>, "nil")
                                           EXCEPT !.call = CallRec("Command", name, args)]]
          ELSE /\ res' = res
               /\ cmd' = [cmd EXCEPT ![t] = NoCmd]
               /\ log' = [log EXCEPT ![t] = <<<<"NewSession", "err">>>>]
               /\ ret' = [ret EXCEPT ![t] = [ErrResult("Command", "ErrNewSession")
                                           EXCEPT !.call = CallRec("Command", name, args)]]
    /\ UNCHANGED <<connVars, fsVars, pc, ctx, defers>>

\* Client.CommandContext(ctx, name, args...): Command, then the caller's
\* context (cancelled or not) is attached; on error it returns (nil, err).
ClientCommandContext(t, name, args) ==
    /\ CanCall(t)
    /\ callNo' = [callNo EXCEPT ![t] = @ + 1]
    /\ call' = [call EXCEPT ![t] = CallRec("CommandContext", name, args)]
    /\ prev' = [prev EXCEPT ![t] = ret[t]]
    /\ proc' = [proc EXCEPT ![t] = NoProc]
    /\ \E cancelled \in BOOLEAN :
          ctx' = [ctx EXCEPT ![t] = [done |-> cancelled, beforeExit |-> cancelled]]
    /\ \E ok \in BOOLEAN :
          IF ok
          THEN /\ res' = OpenHandle(res, NewId(t, "session"), "CommandContext", NewCaller(t))
               /\ cmd' = [cmd EXCEPT ![t] = CommandContext(name, args, NewId(t, "session"))]
               /\ log' = [log EXCEPT ![t] = <<<<"NewSession", "ok">>>>]
               /\ ret' = [ret EXCEPT ![t] = [Result("CommandContext", FALSE, <<>>, "nil")
                                           EXCEPT !.call = CallRec("CommandContext", name, args)]]
          ELSE /\ res' = res
               /\ cmd' = [cmd EXCEPT ![t] = NoCmd]
               /\ log' = [log EXCEPT ![t] = <<<<"NewSession", "err">>>>]
               /\ ret' = [ret EXCEPT ![t] = [ErrResult("CommandContext", "ErrNewSession")
                                           EXCEPT !.call = CallRec("CommandContext", name, args)]]
    /\ UNCHANGED <<connVars, fsVars, pc, defers>>

----------------------------------------------------------------------------
(* Client.Close *)

\* The kinds of handle that are channels multiplexed on the transport.
TransportKinds == {"session", "channel"}

\* What closing the transport does to the handles: every session and channel
\* multiplexed on it is torn down; no Close of a handle is called.
TearDown(r) ==
    [id \in DOMAIN r |->
        IF id[3] \in TransportKinds THEN [r[id] EXCEPT !.state = "closed"] ELSE r[id]]

\* Close keeping the connection's channels alive.
CloseTransport_KeepsChannels(r) == r

\* c.Client.Close(): the ssh client closes the transport and with it the
\* channels on it.
CloseTransport(r) == TearDown(r)

\* Client.Close(): the transport is closed; a command still running on one of
\* its sessions is lost to the caller.
Close ==
    /\ client = "open"
    /\ client' = "closed"
    /\ res' = CloseTransport(res)
    /\ proc' = [t \in Tasks |->
                  IF proc[t].state = "running"
                  THEN [state |-> "done", buf |-> <<>>, status |-> "lost"]
                  ELSE proc[t]]
    /\ UNCHANGED <<config, cfgArgs, cfgErr, dials, closeErr, fsVars, pc, call, callNo,
                   cmd, ctx, defers, log, ret, prev>>

----------------------------------------------------------------------------
(* Files and the streaming copy *)

NoFile == [exists |-> FALSE, data |-> <<>>]

\* A create that opens for writing without truncating.
Truncate_KeepsData(file) == [exists |-> TRUE, data |-> file.data]

\* os.Create / sftp Client.Create: the file exists and is truncated.
Truncate(file) == [exists |-> TRUE, data |-> <<>>]

\* Writing `bytes` from offset 0 of a freshly opened handle onto a file.
WriteAt0(file, bytes) ==
    [exists |-> TRUE,
     data |-> bytes \o SubSeq(file.data, Len(bytes) + 1, Len(file.data))]

Prefix(bytes, k) == SubSeq(bytes, 1, k)

\* io.Copy(dst, src): every byte of src reaches dst and the error is nil, or
\* the copy stops with an error after k bytes.
CopyOutcomes(src) ==
    {[n |-> Len(src), err |-> "nil"]} \cup {[n |-> k, err |-> "ErrCopy"] : k \in 0..Len(src)}

----------------------------------------------------------------------------
(* Client.Upload *)

\* Upload without its deferred closes.
UploadDefer_Missing(stack, id) == stack

\* `defer x.Close()` in Upload: the handle is pushed on the call's defer stack.
UploadDefer(stack, id) == Append(stack, id)

\* An Upload that creates the remote file before it opens the local one.
UploadOpen_CreatesRemoteFirst(t, localPath, remotePath) ==
    /\ CanCall(t)
    /\ callNo' = [callNo EXCEPT ![t] = @ + 1]
    /\ call' = [call EXCEPT ![t] = CallRec("Upload", localPath, remotePath)]
    /\ \E ok \in {b \in BOOLEAN : b => localFS[localPath].exists} :
          IF ok
          THEN /\ res' = OpenHandle(res, NewId(t, "local"), "Upload", NewCaller(t))
               /\ defers' = [defers EXCEPT ![t] = UploadDefer(<<>>, NewId(t, "local"))]
               /\ log' = [log EXCEPT ![t] = <<<<"Open", "local">>>>]
               /\ pc' = [pc EXCEPT ![t] = "up_sftp"]
               /\ UNCHANGED <<ret, prev>>
          ELSE /\ log' = [log EXCEPT ![t] = <<<<"OpenFailed", "local">>>>]
               /\ prev' = [prev EXCEPT ![t] = ret[t]]
               /\ ret' = [ret EXCEPT ![t] = [ErrResult("Upload", "ErrLocalOpen")
                                           EXCEPT !.call = CallRec("Upload", localPath, remotePath)]]
               /\ UNCHANGED <<res, defers, pc>>
    /\ remoteFS' = [remoteFS EXCEPT ![remotePath] = Truncate(@)]
    /\ UNCHANGED <<connVars, localFS, cmd, ctx, proc>>

\* os.Open(localPath): fails when the file is absent (or unreadable).
UploadOpen(t, localPath, remotePath) ==
    /\ CanCall(t)
    /\ callNo' = [callNo EXCEPT ![t] = @ + 1]
    /\ call' = [call EXCEPT ![t] = CallRec("Upload", localPath, remotePath)]
    /\ \E ok \in {b \in BOOLEAN : b => localFS[localPath].exists} :
          IF ok
          THEN /\ res' = OpenHandle(res, NewId(t, "local"), "Upload", NewCaller(t))
               /\ defers' = [defers EXCEPT ![t] = UploadDefer(<<>>, NewId(t, "local"))]
               /\ log' = [log EXCEPT ![t] = <<<<"Open", "local">>>>]
               /\ pc' = [pc EXCEPT ![t] = "up_sftp"]
               /\ UNCHANGED <<ret, prev>>
          ELSE /\ log' = [log EXCEPT ![t] = <<<<"OpenFailed", "local">>>>]
               /\ prev' = [prev EXCEPT ![t] = ret[t]]
               /\ ret' = [ret EXCEPT ![t] = [ErrResult("Upload", "ErrLocalOpen")
                                           EXCEPT !.call = CallRec("Upload", localPath, remotePath)]]
               /\ UNCHANGED <<res, defers, pc>>
    /\ UNCHANGED <<connVars, fsVars, cmd, ctx, proc>>

\* c.NewSftp(): opens the file-subsystem channel.
UploadNewSftp(t) ==
    /\ pc[t] = "up_sftp"
    /\ \/ /\ client = "open"
          /\ res' = OpenHandle(res, HandleId(t, "channel"), "Upload", Caller(t))
          /\ defers' = [defers EXCEPT ![t] = UploadDefer(@, HandleId(t, "channel"))]
          /\ log' = [log EXCEPT ![t] = Append(@, <<"Open", "channel">>)]
          /\ pc' = [pc EXCEPT ![t] = "up_create"]
          /\ UNCHANGED <<ret, prev>>
       \/ Return(t, <<<<"OpenFailed", "channel">>>>, ErrResult("Upload", "ErrChannel"))
    /\ UNCHANGED <<connVars, fsVars, call, callNo, cmd, ctx, proc>>

\* ftp.Create(remotePath): creates or truncates the remote file.
UploadCreate(t) ==
    /\ pc[t] = "up_create"
    /\ \/ /\ client = "open"
          /\ res' = OpenHandle(res, HandleId(t, "remote"), "Upload", Caller(t))
          /\ defers' = [defers EXCEPT ![t] = UploadDefer(@, HandleId(t, "remote"))]
          /\ log' = [log EXCEPT ![t] = Append(@, <<"Open", "remote">>)]
          /\ remoteFS' = [remoteFS EXCEPT ![call[t].b] = Truncate(@)]
          /\ pc' = [pc EXCEPT ![t] = "up_copy"]
          /\ UNCHANGED <<ret, prev>>
       \/ /\ Return(t, <<<<"OpenFailed", "remote">>>>, ErrResult("Upload", "ErrRemoteCreate"))
          /\ UNCHANGED remoteFS
    /\ UNCHANGED <<connVars, localFS, call, callNo, cmd, ctx, proc>>

\* io.Copy(remote, local), then `return` with the copy's error.
UploadCopy(t) ==
    /\ pc[t] = "up_copy"
    /\ \E o \in CopyOutcomes(localFS[call[t].a].data) :
          /\ o.err = "nil" => client = "open"
          /\ remoteFS' = [remoteFS EXCEPT ![call[t].b] =
                            WriteAt0(@, Prefix(localFS[call[t].a].data, o.n))]
          /\ Return(t, <<<<"Copy", o.err>>>>,
                    [ErrResult("Upload", o.err)
                       EXCEPT !.data = Prefix(localFS[call[t].a].data, o.n)])
    /\ UNCHANGED <<connVars, localFS, call, callNo, cmd, ctx, proc>>

----------------------------------------------------------------------------
(* Client.Download *)

\* Download without its deferred closes.
DownloadDefer_Missing(stack, id) == stack

\* `defer x.Close()` in Download.
DownloadDefer(stack, id) == Append(stack, id)

\* A Download that opens its local handle without creating or truncating the
\* file yet.
DownloadCreate_Late(t, remotePath, localPath) ==
    /\ CanCall(t)
    /\ callNo' = [callNo EXCEPT ![t] = @ + 1]
    /\ call' = [call EXCEPT ![t] = CallRec("Download", remotePath, localPath)]
    /\ \E ok \in BOOLEAN :
          IF ok
          THEN /\ res' = OpenHandle(res, NewId(t, "local"), "Download", NewCaller(t))
               /\ defers' = [defers EXCEPT ![t] = DownloadDefer(<<>>, NewId(t, "local"))]
               /\ log' = [log EXCEPT ![t] = <<<<"Open", "local">>>>]
               /\ localFS' = localFS
               /\ pc' = [pc EXCEPT ![t] = "dl_sftp"]
               /\ UNCHANGED <<ret, prev>>
          ELSE /\ log' = [log EXCEPT ![t] = <<<<"OpenFailed", "local">>>>]
               /\ prev' = [prev EXCEPT ![t] = ret[t]]
               /\ ret' = [ret EXCEPT ![t] = [ErrResult("Download", "ErrLocalCreate")
                                           EXCEPT !.call = CallRec("Download", remotePath, localPath)]]
               /\ UNCHANGED <<res, defers, pc, localFS>>
    /\ UNCHANGED <<connVars, remoteFS, cmd, ctx, proc>>

\* os.Create(localPath): creates or truncates the local file.
DownloadCreate(t, remotePath, localPath) ==
    /\ CanCall(t)
    /\ callNo' = [callNo EXCEPT ![t] = @ + 1]
    /\ call' = [call EXCEPT ![t] = CallRec("Download", remotePath, localPath)]
    /\ \E ok \in BOOLEAN :
          IF ok
          THEN /\ res' = OpenHandle(res, NewId(t, "local"), "Download", NewCaller(t))
               /\ defers' = [defers EXCEPT ![t] = DownloadDefer(<<>>, NewId(t, "local"))]
               /\ log' = [log EXCEPT ![t] = <<<<"Open", "local">>>>]
               /\ localFS' = [localFS EXCEPT ![localPath] = Truncate(@)]
               /\ pc' = [pc EXCEPT ![t] = "dl_sftp"]
               /\ UNCHANGED <<ret, prev>>
          ELSE /\ log' = [log EXCEPT ![t] = <<<<"OpenFailed", "local">>>>]
               /\ prev' = [prev EXCEPT ![t] = ret[t]]
               /\ ret' = [ret EXCEPT ![t] = [ErrResult("Download", "ErrLocalCreate")
                                           EXCEPT !.call = CallRec("Download", remotePath, localPath)]]
               /\ UNCHANGED <<res, defers, pc, localFS>>
    /\ UNCHANGED <<connVars, remoteFS, cmd, ctx, proc>>

\* c.NewSftp()
DownloadNewSftp(t) ==
    /\ pc[t] = "dl_sftp"
    /\ \/ /\ client = "open"
          /\ res' = OpenHandle(res, HandleId(t, "channel"), "Download", Caller(t))
          /\ defers' = [defers EXCEPT ![t] = DownloadDefer(@, HandleId(t, "channel"))]
          /\ log' = [log EXCEPT ![t] = Append(@, <<"Open", "channel">>)]
          /\ pc' = [pc EXCEPT ![t] = "dl_open"]
          /\ UNCHANGED <<ret, prev>>
       \/ Return(t, <<<<"OpenFailed", "channel">>>>, ErrResult("Download", "ErrChannel"))
    /\ UNCHANGED <<connVars, fsVars, call, callNo, cmd, ctx, proc>>

\* ftp.Open(remotePath): fails when the remote file is missing (or unreadable).
DownloadOpen(t) ==
    /\ pc[t] = "dl_open"
    /\ \/ /\ client = "open"
          /\ remoteFS[call[t].a].exists
          /\ res' = OpenHandle(res, HandleId(t, "remote"), "Download", Caller(t))
          /\ defers' = [defers EXCEPT ![t] = DownloadDefer(@, HandleId(t, "remote"))]
          /\ log' = [log EXCEPT ![t] = Append(@, <<"Open", "remote">>)]
          /\ pc' = [pc EXCEPT ![t] = "dl_copy"]
          /\ UNCHANGED <<ret, prev>>
       \/ Return(t, <<<<"OpenFailed", "remote">>>>, ErrResult("Download", "ErrRemoteOpen"))
    /\ UNCHANGED <<connVars, fsVars, call, callNo, cmd, ctx, proc>>

\* Download going on to the flush whatever the copy returned.
DownloadCopyFailed_Ignored(err) == FALSE

\* `if _, err = io.Copy(local, remote); err != nil`
DownloadCopyFailed(err) == err # "nil"

\* io.Copy(local, remote): on error Download returns it; otherwise it goes on
\* to local.Sync().
DownloadCopy(t) ==
    /\ pc[t] = "dl_copy"
    /\ \E o \in CopyOutcomes(remoteFS[call[t].a].data) :
          /\ o.err = "nil" => client = "open"
          /\ localFS' = [localFS EXCEPT ![call[t].b] =
                           WriteAt0(@, Prefix(remoteFS[call[t].a].data, o.n))]
          /\ IF DownloadCopyFailed(o.err)
             THEN Return(t, <<<<"Copy", o.err>>>>, ErrResult("Download", o.err))
             ELSE /\ log' = [log EXCEPT ![t] = Append(@, <<"Copy", o.err>>)]
                  /\ pc' = [pc EXCEPT ![t] = "dl_sync"]
                  /\ UNCHANGED <<res, defers, ret, prev>>
    /\ UNCHANGED <<connVars, remoteFS, call, callNo, cmd, ctx, proc>>

\* Download dropping the error of the flush.
DownloadSyncResult_Dropped(err) == ErrResult("Download", "nil")

\* What Download returns for the error of local.Sync().
DownloadSyncResult(err) == ErrResult("Download", err)

\* `return local.Sync()`: the flush runs, then the deferred closes.
DownloadSync(t) ==
    /\ pc[t] = "dl_sync"
    /\ \E err \in {"nil", "ErrSync"} :
          Return(t, <<<<"Sync", err>>>>, DownloadSyncResult(err))
    /\ UNCHANGED <<connVars, fsVars, call, callNo, cmd, ctx, proc>>

----------------------------------------------------------------------------
(* Specifications *)

TaskInit ==
    /\ pc = [t \in Tasks |-> "idle"]
    /\ call = [t \in Tasks |-> NoCall]
    /\ callNo = [t \in Tasks |-> 0]
    /\ cmd = [t \in Tasks |-> NoCmd]
    /\ ctx = [t \in Tasks |-> NoCtx]
    /\ proc = [t \in Tasks |-> NoProc]
    /\ defers = [t \in Tasks |-> <<>>]
    /\ log = [t \in Tasks |-> <<>>]
    /\ ret = [t \in Tasks |-> NoRet]
    /\ prev = [t \in Tasks |-> NoRet]
    /\ res = <<>>

\* The connection set-up: no configuration and no client yet.
InitConn ==
    /\ config = NoConfig
    /\ cfgArgs = NoArgs
    /\ cfgErr = "nil"
    /\ client = "none"
    /\ dials = <<>>
    /\ closeErr = {}
    /\ TaskInit
    /\ localFS = [p \in LocalPaths |-> NoFile]
    /\ remoteFS = [p \in RemotePaths |-> NoFile]

NextConn ==
    \/ \E user \in Users, addr \in Addrs, port \in Ports, auth \in Auths :
          NewConfig(user, addr, port, auth)
    \/ NewClient

SpecConn == InitConn /\ [][NextConn]_vars

\* The connection set-up with configurations from NewConfig and configurations
\* the caller builds, for one user on one host.
NextTrust ==
    \/ \E port \in Ports : NewConfig("root", <<"h">>, port, "key")
    \/ \E port \in Ports, callback \in BOOLEAN :
          CallerConfig("root", <<"h">>, port, "key", callback)
    \/ NewClient

SpecTrust == InitConn /\ [][NextTrust]_vars

\* A connected client: NewConfig and NewClient have succeeded.
Dialed ==
    /\ config = MkConfig("root", <<"h">>, 22, "key")
    /\ cfgArgs = [user |-> "root", addr |-> <<"h">>, port |-> 22, auth |-> "key"]
    /\ cfgErr = "nil"
    /\ client = "open"
    /\ dials = <<[network |-> "tcp", addr |-> JoinHostPort(<<"h">>, Sprint(22)),
                  args |-> [user |-> "root", addr |-> <<"h">>, port |-> 22, auth |-> "key"],
                  callback |-> TRUE]>>

File(d) == [exists |-> TRUE, data |-> d]

\* A connected client whose handles close without error.
Connected == Dialed /\ closeErr = {}

\* The file systems at the start: the local file l1 exists, l2 does not, and
\* the remote file may exist with any earlier content.
InitFS ==
    /\ \E d \in Contents : localFS = [p \in LocalPaths |-> IF p = "l1" THEN File(d) ELSE NoFile]
    /\ \E f \in {NoFile} \cup {File(d) : d \in OldContents} : remoteFS = [p \in RemotePaths |-> f]

\* Remote command execution on a connected client.
NextRun ==
    \E t \in Tasks :
       \/ RunNewSession(t)
       \/ RunCombinedOutput(t)
       \/ RunContextCommand(t)
       \/ RunContextOutput(t)
       \/ Cancel(t)
       \/ RemoteExit(t)

InitRun ==
    /\ Connected
    /\ TaskInit
    /\ localFS = [p \in LocalPaths |-> NoFile]
    /\ remoteFS = [p \in RemotePaths |-> NoFile]

SpecRun == InitRun /\ [][NextRun]_vars

\* Cancellable command execution alone.
NextRunContext ==
    \E t \in Tasks :
       \/ RunContextCommand(t)
       \/ RunContextOutput(t)
       \/ Cancel(t)
       \/ RemoteExit(t)

\* A task that can return from cmd.CombinedOutput() does return: the Go
\* scheduler runs every runnable goroutine.  Nothing makes the caller cancel or
\* the remote process exit.
FairRunContext ==
    /\ InitRun
    /\ [][NextRunContext]_vars
    /\ \A t \in Tasks : WF_vars(RunContextOutput(t))

\* File transfers on a connected client.
NextTransfer ==
    \E t \in Tasks :
       \/ \E l \in LocalPaths, r \in RemotePaths : UploadOpen(t, l, r)
       \/ UploadNewSftp(t)
       \/ UploadCreate(t)
       \/ UploadCopy(t)
       \/ \E r \in RemotePaths, l \in LocalPaths : DownloadCreate(t, r, l)
       \/ DownloadNewSftp(t)
       \/ DownloadOpen(t)
       \/ DownloadCopy(t)
       \/ DownloadSync(t)

InitTransfer == Connected /\ TaskInit /\ InitFS

SpecTransfer == InitTransfer /\ [][NextTransfer]_vars

\* One file system: l1 holds a byte, l2 is absent, r1 holds earlier content.
InitOps ==
    /\ Connected
    /\ TaskInit
    /\ localFS = [p \in LocalPaths |-> IF p = "l1" THEN File(Stream(1)) ELSE NoFile]
    /\ remoteFS = [p \in RemotePaths |-> File(Old(MaxLen))]

\* Every operation of a connected client, issued from concurrent tasks.
Init == InitTransfer

Next == NextRun \/ NextTransfer

Spec == Init /\ [][Next]_vars

SpecOps == InitOps /\ [][Next]_vars


\* Run, RunContext, Upload and Download issued concurrently on one client.  The
\* remote commands print nothing and the files are empty: the handles are what
\* this specification is about.
QuietExit(t) == RemoteExit(t) /\ proc'[t].buf = <<>>

NextShare ==
    \/ NextTransfer
    \/ \E t \in Tasks :
          \/ RunNewSession(t)
          \/ RunCombinedOutput(t)
          \/ RunContextCommand(t)
          \/ RunContextOutput(t)
          \/ Cancel(t)
          \/ QuietExit(t)

InitShare ==
    /\ Connected
    /\ TaskInit
    /\ localFS = [p \in LocalPaths |-> IF p = "l1" THEN File(<<>>) ELSE NoFile]
    /\ remoteFS = [p \in RemotePaths |-> File(<<>>)]

SpecShare == InitShare /\ [][NextShare]_vars

\* A configured client that is not connected yet: NewClient is called until a
\* dial succeeds, then the operations run as in SpecShare.
InitRetry ==
    /\ config = MkConfig("root", <<"h">>, 22, "key")
    /\ cfgArgs = [user |-> "root", addr |-> <<"h">>, port |-> 22, auth |-> "key"]
    /\ cfgErr = "nil"
    /\ client = "none"
    /\ dials = <<>>
    /\ closeErr = {}
    /\ TaskInit
    /\ localFS = [p \in LocalPaths |-> IF p = "l1" THEN File(<<>>) ELSE NoFile]
    /\ remoteFS = [p \in RemotePaths |-> File(<<>>)]

NextRetry == NewClient \/ NextShare

SpecRetry == InitRetry /\ [][NextRetry]_vars

\* Run, Upload and Download on a client whose handles may fail to close: no
\* close fails, the close of the remote file fails, or every close fails.
CloseFailures == {{}, {"remote"}, HandleKinds}

InitCloseErr ==
    /\ Dialed
    /\ closeErr \in CloseFailures
    /\ TaskInit
    /\ localFS = [p \in LocalPaths |-> IF p = "l1" THEN File(Stream(1)) ELSE NoFile]
    /\ remoteFS = [p \in RemotePaths |-> File(Old(1))]

NextCloseErr ==
    \/ NextTransfer
    \/ \E t \in Tasks :
          \/ RunNewSession(t)
          \/ RunCombinedOutput(t)
          \/ QuietExit(t)

SpecCloseErr == InitCloseErr /\ [][NextCloseErr]_vars

\* Building commands on a connected client.
NextCommand ==
    \E t \in Tasks, name \in Names, args \in ArgLists :
       \/ ClientCommand(t, name, args)
       \/ ClientCommandContext(t, name, args)

\* Commands, Run and Upload on a client that may be closed under them.
NextClose ==
    \/ Close
    \/ NextCommand
    \/ \E t \in Tasks :
          \/ RunNewSession(t)
          \/ RunCombinedOutput(t)
          \/ RemoteExit(t)
          \/ \E l \in LocalPaths, r \in RemotePaths : UploadOpen(t, l, r)
          \/ UploadNewSftp(t)
          \/ UploadCreate(t)
          \/ UploadCopy(t)

SpecClose == InitOps /\ [][NextClose]_vars

----------------------------------------------------------------------------
(* Properties *)

\* The call that opened handle id is still in flight.
InCall(id) == pc[id[1]] # "idle" /\ callNo[id[1]] = id[2]

\* Task t is idle and its last call was op.
Returned(t, op) == pc[t] = "idle" /\ ret[t].op = op

Has(events, e) == \E i \in 1..Len(events) : events[i] = e

Count(events, e) == Cardinality({i \in 1..Len(events) : events[i] = e})

\* C1: Run releases its session on every exit path.  A session opened by a Run
\* call is open while the call is in flight and has been closed exactly once
\* when the call is over, whether the output collection returned an output, an
\* error or panicked; when the session open failed Run returned (nil, error)
\* and the call opened no session.
C1_RunReleasesSession ==
    /\ \A id \in DOMAIN res :
          res[id].op = "Run" =>
             IF InCall(id) THEN res[id].state = "open" /\ res[id].closes = 0
             ELSE res[id].state = "closed" /\ res[id].closes = 1
    /\ \A t \in Tasks :
          Returned(t, "Run") /\ log[t][1] = <<"NewSession", "err">> =>
             /\ ret[t].isNil
             /\ ret[t].err = "ErrNewSession"
             /\ <<t, callNo[t], "session">> \notin DOMAIN res

\* C1 witness: a Run whose output collection panicked has left with its
\* session closed.
C1_Witness ==
    \E t \in Tasks :
       /\ Returned(t, "Run")
       /\ ret[t].panicked
       /\ res[<<t, callNo[t], "session">>].state = "closed"

\* C2: RunContext has the session-release guarantee of Run: once a RunContext
\* call is over, the session CommandContext opened for it is closed.
C2_RunContextReleasesSession ==
    \A id \in DOMAIN res :
       res[id].op = "RunContext" /\ ~InCall(id) => res[id].state = "closed"

\* C3: if the context of a RunContext call is cancelled before the remote
\* process has exited, the call eventually returns the cancellation error,
\* whether or not the remote process ever exits.
C3_CancelReturns ==
    \A t \in Tasks :
       (pc[t] = "rc_output" /\ ctx[t].done /\ ctx[t].beforeExit)
          ~> (Returned(t, "RunContext") /\ ret[t].err = "ErrCancelled")

\* C3 witness: a cancelled RunContext has returned the cancellation error
\* while its remote process is still running.
C3_Witness ==
    \E t \in Tasks :
       /\ Returned(t, "RunContext")
       /\ ret[t].err = "ErrCancelled"
       /\ proc[t].state = "running"
       /\ ctx[t].done

\* C4: every dial goes to the host and port given to NewConfig, over "tcp".
C4_DialsConfiguredPort ==
    \A i \in 1..Len(dials) :
       /\ dials[i].network = "tcp"
       /\ dials[i].addr = JoinHostPort(dials[i].args.addr, Sprint(dials[i].args.port))

\* The steps Download logs when every step up to `last` succeeded, before its
\* deferred closes.
DownloadOpens ==
    <<<<"Open", "local">>, <<"Open", "channel">>, <<"Open", "remote">>>>

DownloadCloses ==
    <<<<"Close", "remote">>, <<"Close", "channel">>, <<"Close", "local">>>>

\* A step of the current call failed.
FailedStep(events) ==
    \E i \in 1..Len(events) :
       \/ events[i][1] = "OpenFailed"
       \/ events[i] = <<"Copy", "ErrCopy">>

Flushes(events) == Count(events, <<"Sync", "nil">>) + Count(events, <<"Sync", "ErrSync">>)

\* C5: a Download whose local create, channel open, remote open or streaming
\* copy failed never flushes, and a Download whose copy failed returns exactly
\* the error of the copy.
C5_NoFlushAfterFailure ==
    \A t \in Tasks :
       call[t].op = "Download" /\ FailedStep(log[t]) =>
          /\ Flushes(log[t]) = 0
          /\ pc[t] = "idle"
          /\ Has(log[t], <<"Copy", "ErrCopy">>) => ret[t].err = "ErrCopy"

\* C5 witness: a Download has returned the error of a copy that stopped after
\* some bytes had reached the local file.
C5_Witness ==
    \E t \in Tasks :
       /\ Returned(t, "Download")
       /\ ret[t].err = "ErrCopy"
       /\ Has(log[t], <<"Copy", "ErrCopy">>)
       /\ Len(localFS[call[t].b].data) > 0

\* C6: a Download that returned success opened its three handles, copied
\* without error, flushed exactly once with success and only then closed its
\* handles; a Download returns the flush error exactly when the copy succeeded
\* and the one flush after it failed.
C6_FlushBeforeSuccess ==
    \A t \in Tasks :
       Returned(t, "Download") =>
          /\ ret[t].err = "nil" =>
                log[t] = DownloadOpens \o <<<<"Copy", "nil">>, <<"Sync", "nil">>>>
                            \o DownloadCloses
          /\ ret[t].err = "ErrSync" <=> Has(log[t], <<"Sync", "ErrSync">>)
          /\ Has(log[t], <<"Sync", "ErrSync">>) =>
                log[t] = DownloadOpens \o <<<<"Copy", "nil">>, <<"Sync", "ErrSync">>>>
                            \o DownloadCloses

\* C6 witness: a Download has returned the error of the flush that followed a
\* complete copy.
C6_Witness ==
    \E t \in Tasks :
       /\ Returned(t, "Download")
       /\ ret[t].err = "ErrSync"
       /\ localFS[call[t].b].data = remoteFS[call[t].a].data
       /\ Len(localFS[call[t].b].data) > 0

\* The handles of the calls of op: open and never closed while their call is
\* in flight, closed exactly once when it is over.
ReleasedOnce(op) ==
    \A id \in DOMAIN res :
       res[id].op = op =>
          IF InCall(id) THEN res[id].state = "open" /\ res[id].closes = 0
          ELSE res[id].state = "closed" /\ res[id].closes = 1

\* The closes a finished call made are those of the handles it opened.
ClosesMatchOpens(events) ==
    \A kind \in {"local", "channel", "remote", "session"} :
       Count(events, <<"Close", kind>>) = Count(events, <<"Open", kind>>)

\* A step of an Upload call of task t.
UploadStep(t) ==
    \/ pc[t] \in {"up_sftp", "up_create", "up_copy"} /\ pc'[t] # pc[t]
    \/ pc[t] = "idle" /\ callNo'[t] # callNo[t] /\ call'[t].op = "Upload"

C7_Released ==
    /\ ReleasedOnce("Upload")
    /\ \A t \in Tasks :
          Returned(t, "Upload") =>
             /\ ClosesMatchOpens(log[t])
             /\ Has(log[t], <<"OpenFailed", "remote">>) =>
                   /\ ret[t].err = "ErrRemoteCreate"
                   /\ res[<<t, callNo[t], "local">>].state = "closed"

\* C7: Upload releases what it acquired on every exit path.  Each local file,
\* channel and remote handle an Upload opened is closed exactly once by the
\* time the call is over, nothing else is closed, an Upload whose remote create
\* failed returns that error with its local file closed, and no step of an
\* Upload changes a local file.
C7_UploadReleases == []C7_Released /\ [][\A t \in Tasks : UploadStep(t) => localFS' = localFS]_vars

\* C7 witness: an Upload whose remote create failed has returned with its
\* local file and its channel closed.
C7_Witness ==
    \E t \in Tasks :
       /\ Returned(t, "Upload")
       /\ ret[t].err = "ErrRemoteCreate"
       /\ res[<<t, callNo[t], "local">>].closes = 1
       /\ res[<<t, callNo[t], "channel">>].closes = 1

\* C8: Download releases what it acquired on every exit path.  Each local file,
\* channel and remote handle a Download opened is closed exactly once by the
\* time the call is over, and when no transfer is in flight no handle of an
\* Upload or Download is open.
C8_DownloadReleases ==
    /\ ReleasedOnce("Download")
    /\ \A t \in Tasks : Returned(t, "Download") => ClosesMatchOpens(log[t])
    /\ (\A t \in Tasks : pc[t] = "idle") =>
          \A id \in DOMAIN res :
             res[id].op \in {"Upload", "Download"} => res[id].state = "closed"

\* C8 witness: a Download whose flush failed has returned with its three
\* handles closed.
C8_Witness ==
    \E t \in Tasks :
       /\ Returned(t, "Download")
       /\ Has(log[t], <<"Sync", "ErrSync">>)
       /\ \A kind \in {"local", "channel", "remote"} :
             res[<<t, callNo[t], kind>>].state = "closed"

\* C9: Run returns what the session collected.  After a Run whose session was
\* opened and whose output collection returned, the output is the bytes the
\* remote process wrote, and the error is nil exactly when the process exited
\* with status 0.
C9_RunReturnsOutput ==
    \A t \in Tasks :
       Returned(t, "Run") /\ log[t][1] = <<"NewSession", "ok">> /\ ~ret[t].panicked =>
          /\ ~ret[t].isNil
          /\ ret[t].out = proc[t].buf
          /\ ret[t].err = "nil" <=> proc[t].status = "exit0"

\* C9 witness: a Run has returned a non-nil error together with the bytes the
\* process wrote before it exited non-zero.
C9_Witness ==
    \E t \in Tasks :
       /\ Returned(t, "Run")
       /\ proc[t].status = "exit1"
       /\ ret[t].err = "ErrExit"
       /\ Len(ret[t].out) > 0

\* Task t is the only task that has called anything.
Alone(t) == \A u \in Tasks \ {t} : callNo[u] = 0

\* C10: when a task, with no other call on the connection, has completed a
\* successful Upload(local, remote) and then a successful Download(remote,
\* local2), local2 holds exactly the bytes local held, whatever the remote file
\* held before.
C10_RoundTrip ==
    \A t \in Tasks :
       /\ Alone(t)
       /\ Returned(t, "Download") /\ ret[t].err = "nil"
       /\ prev[t].op = "Upload" /\ prev[t].err = "nil"
       /\ prev[t].call.b = ret[t].call.a
       => /\ localFS[ret[t].call.b] = File(prev[t].data)
          /\ localFS[prev[t].call.a] = File(prev[t].data)

\* C10 witness: a non-empty l1 has been uploaded and then downloaded to l2,
\* which did not exist before.
C10_Witness ==
    \E t \in Tasks :
       /\ Alone(t)
       /\ Returned(t, "Download") /\ ret[t].err = "nil"
       /\ prev[t].op = "Upload" /\ prev[t].err = "nil"
       /\ prev[t].call.a = "l1" /\ ret[t].call.b = "l2"
       /\ Len(prev[t].data) > 0
       /\ localFS["l2"].data = prev[t].data

\* C11: after Close no session and no file-subsystem channel opened on the
\* connection is open, including the sessions held by commands that were built
\* and never run and the channels of transfers still in flight.
C11_CloseLeavesNoChannel ==
    client = "closed" =>
       \A id \in DOMAIN res : id[3] \in TransportKinds => res[id].state = "closed"

\* C11 witness: the connection was closed while one task held the session of a
\* command it had built, never closed by anyone, and another task was inside an
\* Upload with its channel open.
C11_Witness ==
    /\ client = "closed"
    /\ \E t \in Tasks :
          /\ pc[t] = "idle" /\ ret[t].op \in {"Command", "CommandContext"}
          /\ cmd[t].set
          /\ res[cmd[t].Session].closes = 0
    /\ \E u \in Tasks :
          /\ pc[u] \in {"up_create", "up_copy"}
          /\ res[<<u, callNo[u], "channel">>].closes = 0

\* The handles a call in flight works on: those it deferred the close of, and
\* the session of the command RunContext is waiting for.
Holds(t) ==
    Range(defers[t]) \cup (IF pc[t] = "rc_output" THEN {cmd[t].Session} ELSE {})

\* What the call of task t, or the remote process it started, can do next.
OwnStep(t) ==
    \/ RunCombinedOutput(t) \/ RunContextOutput(t) \/ QuietExit(t)
    \/ UploadNewSftp(t) \/ UploadCreate(t) \/ UploadCopy(t)
    \/ DownloadNewSftp(t) \/ DownloadOpen(t) \/ DownloadCopy(t) \/ DownloadSync(t)

\* C12: in every interleaving of Run, RunContext, Upload and Download calls on
\* one client each call works on handles it opened itself, which stay open
\* while it is in flight; no handle is closed by a call other than the one that
\* opened it; and a call in flight can always take its next step, whatever the
\* other calls are doing.
C12_NoSharing ==
    /\ \A id \in DOMAIN res :
          /\ res[id].owner = <<id[1], id[2]>>
          /\ res[id].closedBy \subseteq {res[id].owner}
    /\ \A t \in Tasks : \A id \in Holds(t) :
          /\ id \in DOMAIN res
          /\ res[id].owner = Caller(t)
          /\ res[id].state = "open"
    /\ \A t \in Tasks : \A u \in Tasks \ {t} : Holds(t) \cap Holds(u) = {}
    /\ \A t \in Tasks : pc[t] # "idle" => ENABLED OwnStep(t)

\* C12 witness: a Run and a Download are in flight together, each on its own
\* open session or channel.
C12_Witness ==
    \E t \in Tasks : \E u \in Tasks \ {t} :
       /\ pc[t] = "run_output" /\ res[HandleId(t, "session")].state = "open"
       /\ pc[u] = "dl_copy" /\ res[HandleId(u, "channel")].state = "open"
       /\ HandleId(t, "session") \in Holds(t)
       /\ HandleId(u, "channel") \in Holds(u)

\* C13: no dial is made with a configuration that lacks the host-key callback;
\* NewConfig yields a configuration with the callback or an error and no
\* configuration.
C13_NoDialWithoutCallback ==
    /\ \A i \in 1..Len(dials) : dials[i].callback
    /\ cfgErr # "nil" => ~config.set

\* How often a step was attempted in the logged call.
Tries(events, name) == Cardinality({i \in 1..Len(events) : events[i][1] = name})

OpenTries(events, kind) ==
    Count(events, <<"Open", kind>>) + Count(events, <<"OpenFailed", kind>>)

\* The error a logged step of a call of op ended with, "nil" for a step that
\* succeeded.
StepError(op, e) ==
    CASE e = <<"NewSession", "err">> -> "ErrNewSession"
      [] e = <<"OpenFailed", "local">> ->
            IF op = "Upload" THEN "ErrLocalOpen" ELSE "ErrLocalCreate"
      [] e = <<"OpenFailed", "channel">> -> "ErrChannel"
      [] e = <<"OpenFailed", "remote">> ->
            IF op = "Upload" THEN "ErrRemoteCreate" ELSE "ErrRemoteOpen"
      [] e = <<"Copy", "ErrCopy">> -> "ErrCopy"
      [] e = <<"Sync", "ErrSync">> -> "ErrSync"
      [] e[1] = "Output" -> IF e[2] = "panic" THEN "panic" ELSE ExitError(e[2])
      [] OTHER -> "nil"

Failures(op, events) == {i \in 1..Len(events) : StepError(op, events[i]) # "nil"}

\* Each step of the logged call was attempted at most once; a failed step ended
\* the call with its error, and only the deferred closes came after it.
C14_Steps ==
    \A t \in Tasks :
       LET ev == log[t]
           F == Failures(call[t].op, ev)
       IN /\ \A name \in {"NewSession", "CombinedOutput", "Output", "Copy", "Sync"} :
                Tries(ev, name) <= 1
          /\ \A kind \in {"local", "channel", "remote"} : OpenTries(ev, kind) <= 1
          /\ F # {} =>
                /\ pc[t] = "idle"
                /\ Cardinality(F) = 1
                /\ \A i \in F : \A j \in (i + 1)..Len(ev) : ev[j][1] = "Close"
                /\ \A i \in F : ret[t].err = StepError(call[t].op, ev[i])
                /\ ret[t].call = call[t]

\* A step dials at most once, and the remote command of a call, once it has
\* exited, is not started again.
C14_Once ==
    /\ Len(dials') <= Len(dials) + 1
    /\ \A t \in Tasks :
          callNo'[t] = callNo[t] /\ proc[t].state = "done" => proc'[t].state = "done"

\* C14: this layer never retries.  Within one call of NewClient, Run,
\* RunContext, Upload or Download each step is attempted at most once, the
\* first failing step ends the call with that step's error, nothing but the
\* deferred closes follows a failure, and the command of a Run call is executed
\* at most once.
C14_NeverRetries == []C14_Steps /\ [][C14_Once]_vars

\* C14 witness: a dial failed and was not repeated by NewClient (the caller
\* called NewClient again), and a Run whose command failed has returned that
\* error after a single execution.
C14_Witness ==
    /\ Len(dials) = 2
    /\ client = "open"
    /\ \E t \in Tasks :
          /\ Returned(t, "Run")
          /\ ret[t].err = ExitError("exit1")
          /\ Tries(log[t], "CombinedOutput") = 1
    /\ \E t \in Tasks :
          /\ Returned(t, "Upload")
          /\ ret[t].err = "ErrChannel"

\* The error of the first failed primary step of the logged call, "nil" when
\* every step succeeded.
PrimaryError(op, events) ==
    LET F == Failures(op, events)
    IN IF F = {} THEN "nil"
       ELSE StepError(op, events[CHOOSE i \in F : \A j \in F : i <= j])

\* How many handles of a kind the logged call acquired.
Acquired(events, kind) ==
    IF kind = "session" THEN Count(events, <<"NewSession", "ok">>)
    ELSE Count(events, <<"Open", kind>>)

\* C15: the error Run, Upload and Download return is the error of the first
\* failed primary step, or nil, or the result of the flush, whichever closes
\* fail; and a call that is over has attempted the close of every handle it
\* acquired, also after a primary failure.
C15_CloseErrorsDropped ==
    \A t \in Tasks :
       pc[t] = "idle" /\ ret[t].op \in {"Run", "Upload", "Download"} =>
          /\ ret[t].err = PrimaryError(ret[t].op, log[t])
          /\ \A kind \in HandleKinds :
                Count(log[t], <<"Close", kind>>) = Acquired(log[t], kind)
          /\ \A id \in DOMAIN res :
                id[1] = t /\ id[2] = callNo[t] =>
                   res[id].state = "closed" /\ res[id].closes = 1

\* C15 witness: with every close failing, an Upload has returned success, a
\* Download has returned the error of its copy, and both closed their three
\* handles.
C15_Witness ==
    /\ closeErr = HandleKinds
    /\ \E t \in Tasks :
          /\ Returned(t, "Upload") /\ ret[t].err = "nil"
          /\ Count(log[t], <<"Close", "remote">>) = 1
    /\ \E t \in Tasks :
          /\ Returned(t, "Download") /\ ret[t].err = "ErrCopy"
          /\ Count(log[t], <<"Close", "remote">>) = 1
          /\ Count(log[t], <<"Close", "local">>) = 1

\* Task t is idle and the last thing it called was Command or CommandContext.
Built(t) == pc[t] = "idle" /\ ret[t].op \in {"Command", "CommandContext"}

\* What Command and CommandContext have returned.
C16_Built ==
    \A t \in Tasks :
       Built(t) =>
          LET sess == <<t, callNo[t], "session">>
              mine == {id \in DOMAIN res : id[1] = t /\ id[2] = callNo[t]}
          IN IF ret[t].err = "nil"
             THEN /\ ~ret[t].isNil
                  /\ cmd[t].set
                  /\ cmd[t].Path = call[t].a
                  /\ cmd[t].Args = call[t].b
                  /\ cmd[t].Context =
                        (IF ret[t].op = "Command" THEN "background" ELSE "ctx")
                  /\ cmd[t].Session = sess
                  /\ mine = {sess}
                  /\ res[sess].owner = Caller(t)
                  /\ res[sess].closes = 0
                  /\ client = "open" => res[sess].state = "open"
                  /\ proc[t].state = "none"
                  /\ \A u \in Tasks \ {t} : cmd[u].set => cmd[u].Session # sess
             ELSE /\ ret[t].isNil
                  /\ ret[t].err = "ErrNewSession"
                  /\ ~cmd[t].set
                  /\ mine = {}

\* The session of a command just built did not exist before the call.
C16_Fresh ==
    \A t \in Tasks :
       callNo'[t] # callNo[t] /\ call'[t].op \in {"Command", "CommandContext"}
          /\ cmd'[t].set => cmd'[t].Session \notin DOMAIN res

\* C16: Command and CommandContext return a command bound to exactly one
\* freshly opened session, neither started nor closed, with the executable and
\* the arguments as given and in order, the background context for Command and
\* the caller's context for CommandContext; when the session open fails they
\* return the error, no command, and leave no session.
C16_CommandBuilt == []C16_Built /\ [][C16_Fresh]_vars

\* C16 witness: a CommandContext with two arguments and a Command with none
\* have returned, each with its own open session.
C16_Witness ==
    \E t \in Tasks : \E u \in Tasks \ {t} :
       /\ client = "open"
       /\ Built(t) /\ ret[t].op = "CommandContext" /\ ret[t].err = "nil"
       /\ cmd[t].Args = <<"-l", "/tmp">>
       /\ res[cmd[t].Session].state = "open"
       /\ Built(u) /\ ret[u].op = "Command" /\ ret[u].err = "nil"
       /\ cmd[u].Args = <<>>
       /\ res[cmd[u].Session].state = "open"

\* The context of task t's RunContext call was cancelled after the remote
\* process had exited.
LateCancel(t) ==
    /\ call[t].op = "RunContext"
    /\ ctx[t].done /\ ~ctx[t].beforeExit

C18_Left ==
    \A t \in Tasks :
       Alone(t) /\ Returned(t, "Download") =>
          LET dst == localFS[call[t].b]
              src == remoteFS[call[t].a].data
          IN /\ ret[t].err \in {"ErrChannel", "ErrRemoteOpen"} => dst = File(<<>>)
             /\ ret[t].err = "ErrCopy" =>
                   /\ dst.exists
                   /\ \E k \in 0..Len(src) : dst.data = Prefix(src, k)

\* The first step of a Download truncates the local destination before any
\* channel or remote handle of the call exists, or fails and leaves the local
\* files as they were; the channel open and the remote open write no file.
C18_Order ==
    \A t \in Tasks :
       /\ callNo'[t] # callNo[t] /\ call'[t].op = "Download" =>
             IF pc'[t] = "dl_sftp"
             THEN /\ localFS' = [localFS EXCEPT ![call'[t].b] = File(<<>>)]
                  /\ <<t, callNo'[t], "channel">> \notin DOMAIN res'
                  /\ <<t, callNo'[t], "remote">> \notin DOMAIN res'
             ELSE /\ ret'[t].err = "ErrLocalCreate"
                  /\ localFS' = localFS
       /\ pc[t] \in {"dl_sftp", "dl_open"} /\ pc'[t] # pc[t] =>
             localFS' = localFS /\ remoteFS' = remoteFS

\* C18: Download creates or truncates the local destination before it opens
\* the channel or the remote file.  A Download that fails at the channel open
\* or the remote open leaves the destination existing and empty, one that fails
\* during the copy leaves it holding only bytes of the remote file, and the
\* destination is as it was only when the local create itself failed.
C18_DownloadTruncatesFirst == []C18_Left /\ [][C18_Order]_vars

\* C18 witness: l1 held bytes (an Upload copied them), then a Download onto l1
\* failed at the channel open and left l1 empty.
C18_Witness ==
    \E t \in Tasks :
       /\ Alone(t)
       /\ Returned(t, "Download") /\ ret[t].err = "ErrChannel"
       /\ call[t].b = "l1"
       /\ prev[t].op = "Upload" /\ prev[t].err = "nil" /\ prev[t].call.a = "l1"
       /\ Len(prev[t].data) > 0
       /\ localFS["l1"] = File(<<>>)

\* The handles Upload acquires, in order.
UploadOrder == <<"local", "channel", "remote">>

\* The opens an Upload logged came in the order local file, channel, remote
\* file; an Upload that could not open its local file opened nothing, and one
\* whose channel open failed has no remote handle.
C19_Acquired ==
    \A t \in Tasks :
       call[t].op = "Upload" =>
          /\ \A i \in 1..Len(log[t]) :
                log[t][i][1] \in {"Open", "OpenFailed"} =>
                   i <= Len(UploadOrder) /\ log[t][i][2] = UploadOrder[i]
          /\ Returned(t, "Upload") /\ ret[t].err = "ErrLocalOpen" =>
                /\ log[t] = <<<<"OpenFailed", "local">>>>
                /\ \A id \in DOMAIN res : ~(id[1] = t /\ id[2] = callNo[t])
          /\ Returned(t, "Upload") /\ ret[t].err = "ErrChannel" =>
                <<t, callNo[t], "remote">> \notin DOMAIN res

\* The local open of an Upload, failed or not, and its channel open leave the
\* remote files as they were and open no channel before the local file; a
\* failed local open opens nothing at all.
C19_Order ==
    \A t \in Tasks :
       /\ callNo'[t] # callNo[t] /\ call'[t].op = "Upload" =>
             /\ remoteFS' = remoteFS
             /\ <<t, callNo'[t], "channel">> \notin DOMAIN res'
             /\ pc'[t] = "idle" => ret'[t].err = "ErrLocalOpen" /\ res' = res
       /\ pc[t] = "up_sftp" /\ pc'[t] # pc[t] =>
             /\ remoteFS' = remoteFS
             /\ <<t, callNo[t], "remote">> \notin DOMAIN res'

\* C19: Upload acquires the local file, then the channel, then the remote
\* file.  When the local file cannot be opened Upload returns that error
\* without opening a channel and without creating or truncating the remote
\* file; when the channel open fails the remote file is not created or
\* truncated.
C19_UploadOrder == []C19_Acquired /\ [][C19_Order]_vars

\* C19 witness: an Upload of the missing l2 failed at the local open, the next
\* Upload failed at the channel open, and the remote file still holds its
\* earlier bytes.
C19_Witness ==
    \E t \in Tasks :
       /\ Alone(t)
       /\ Returned(t, "Upload") /\ ret[t].err = "ErrChannel"
       /\ prev[t].op = "Upload" /\ prev[t].err = "ErrLocalOpen"
       /\ prev[t].call.a = "l2"
       /\ remoteFS[call[t].b] = File(Old(MaxLen))

====
